---- MODULE Spec2Model ----
(***************************************************************************)
(* Announcements router of the High School Management System API           *)
(* (src/backend/routers/announcements.py).                                 *)
(*                                                                         *)
(* The announcements collection is a function from ObjectId to document;   *)
(* a document is a function from field names to values, so a field that    *)
(* is absent is absent from the document's DOMAIN.  Strings the code       *)
(* inspects character by character (messages, dates, ids) are sequences of *)
(* character codes; usernames are only compared for equality and stay      *)
(* TLA+ strings.  Spec runs each request to completion before the next;    *)
(* ConcSpec lets other requests run between the store calls of an update.  *)
(***************************************************************************)
EXTENDS Integers, Sequences, FiniteSets, TLC

VARIABLES store, nextId, clock, upd

vars == <<store, nextId, clock, upd>>

(***************************************************************************)
(* Bounds of the model.                                                    *)
(***************************************************************************)
\* number of announcements ever inserted
MaxIds == 2
\* number of half-second ticks the clock advances
MaxClock == 2
\* number of update requests that can be in flight at once (ConcSpec)
MaxProcs == 1

(***************************************************************************)
(* Characters and strings.                                                 *)
(***************************************************************************)
Ch == [sp |-> 32, plus |-> 43, minus |-> 45, dot |-> 46, zero |-> 48,
       nine |-> 57, colon |-> 58, A |-> 65, F |-> 70, T |-> 84, Z |-> 90,
       a |-> 97, f |-> 102]

\* Python's None, kept apart from every string (no character has code 0)
None == <<0>>

\* Python truthiness of an optional string: None and "" are falsy
Truthy(s) == s # None /\ s # <<>>

IsDigit(c) == c >= Ch.zero /\ c <= Ch.nine

\* str.isspace for the ASCII whitespace characters str.strip removes
IsSpace(c) == c \in {9, 10, 11, 12, 13, 32}

RECURSIVE lstrip(_)
lstrip(s) == IF s # <<>> /\ IsSpace(Head(s)) THEN lstrip(Tail(s)) ELSE s

RECURSIVE rstrip(_)
rstrip(s) ==
  IF s # <<>> /\ IsSpace(s[Len(s)]) THEN rstrip(SubSeq(s, 1, Len(s) - 1)) ELSE s

\* str.strip()
StripOf(s) == rstrip(lstrip(s))

\* str.replace('Z', '+00:00'): every 'Z' is replaced
RECURSIVE ReplaceZ(_)
ReplaceZ(s) ==
  IF s = <<>> THEN <<>>
  ELSE IF Head(s) = Ch.Z
       THEN <<Ch.plus, Ch.zero, Ch.zero, Ch.colon, Ch.zero, Ch.zero>> \o ReplaceZ(Tail(s))
       ELSE <<Head(s)>> \o ReplaceZ(Tail(s))

\* binary (code point) string comparison, as the store compares strings
RECURSIVE LexLeq(_, _)
LexLeq(x, y) ==
  IF x = <<>> THEN TRUE
  ELSE IF y = <<>> THEN FALSE
  ELSE IF Head(x) < Head(y) THEN TRUE
  ELSE IF Head(x) > Head(y) THEN FALSE
  ELSE LexLeq(Tail(x), Tail(y))

\* decimal value of a run of digits
RECURSIVE DecVal(_)
DecVal(s) == IF s = <<>> THEN 0 ELSE DecVal(SubSeq(s, 1, Len(s) - 1)) * 10 + (s[Len(s)] - Ch.zero)

AllDigits(s) == \A i \in 1..Len(s) : IsDigit(s[i])

\* n as two decimal digits
D2(n) == <<Ch.zero + (n \div 10), Ch.zero + (n % 10)>>

\* n as six decimal digits
D6(n) == D2(n \div 10000) \o D2((n \div 100) % 100) \o D2(n % 100)

(***************************************************************************)
(* datetime: isoformat() of the clock and fromisoformat() of an input.     *)
(***************************************************************************)
\* the calendar day the clock runs in, "2025-01-01"
Today == <<50, 48, 50, 53>> \o <<Ch.minus>> \o D2(1) \o <<Ch.minus>> \o D2(1)

\* second and microsecond of the clock's n-th half-second tick
SecondOf(tick) == tick \div 2
MicrosecondOf(tick) == IF tick % 2 = 0 THEN 0 ELSE 500000

\* datetime.isoformat(): the fraction is written only when it is not zero
isoformat(tick) ==
  LET sec == SecondOf(tick)
      us  == MicrosecondOf(tick)
  IN  Today \o <<Ch.T>> \o D2(sec \div 3600) \o <<Ch.colon>> \o D2((sec \div 60) % 60)
        \o <<Ch.colon>> \o D2(sec % 60)
        \o (IF us = 0 THEN <<>> ELSE <<Ch.dot>> \o D6(us))

\* datetime.utcnow().isoformat() + "Z"
UtcNowZ(tick) == isoformat(tick) \o <<Ch.Z>>

IsLeap(y) == y % 4 = 0 /\ (y % 100 # 0 \/ y % 400 = 0)

DaysInMonth(y, m) ==
  IF m = 2 THEN (IF IsLeap(y) THEN 29 ELSE 28)
  ELSE IF m \in {4, 6, 9, 11} THEN 30 ELSE 31

RECURSIVE DaysBeforeMonth(_, _)
DaysBeforeMonth(y, m) == IF m <= 1 THEN 0 ELSE DaysBeforeMonth(y, m - 1) + DaysInMonth(y, m - 1)

\* proleptic Gregorian ordinal of a date (date.toordinal)
Ordinal(y, m, d) ==
  365 * (y - 1) + ((y - 1) \div 4) - ((y - 1) \div 100) + ((y - 1) \div 400)
    + DaysBeforeMonth(y, m) + d

ParseError == [ok |-> FALSE]

\* "YYYY-MM-DD"
ParseDate(s) ==
  IF /\ Len(s) = 10
     /\ AllDigits(SubSeq(s, 1, 4)) /\ s[5] = Ch.minus
     /\ AllDigits(SubSeq(s, 6, 7)) /\ s[8] = Ch.minus
     /\ AllDigits(SubSeq(s, 9, 10))
  THEN LET y == DecVal(SubSeq(s, 1, 4))
           m == DecVal(SubSeq(s, 6, 7))
           d == DecVal(SubSeq(s, 9, 10))
       IN  IF y >= 1 /\ m >= 1 /\ m <= 12 /\ d >= 1 /\ d <= DaysInMonth(y, m)
           THEN [ok |-> TRUE, ord |-> Ordinal(y, m, d)]
           ELSE ParseError
  ELSE ParseError

\* "HH", "HH:MM", "HH:MM:SS", "HH:MM:SS.fff" or "HH:MM:SS.ffffff"
ParseTime(s) ==
  LET n == Len(s)
      shape ==
        /\ n \in {2, 5, 8, 12, 15}
        /\ AllDigits(SubSeq(s, 1, 2))
        /\ n >= 5 => (s[3] = Ch.colon /\ AllDigits(SubSeq(s, 4, 5)))
        /\ n >= 8 => (s[6] = Ch.colon /\ AllDigits(SubSeq(s, 7, 8)))
        /\ n >= 12 => (s[9] = Ch.dot /\ AllDigits(SubSeq(s, 10, n)))
  IN  IF shape
      THEN LET h  == DecVal(SubSeq(s, 1, 2))
               mi == IF n >= 5 THEN DecVal(SubSeq(s, 4, 5)) ELSE 0
               se == IF n >= 8 THEN DecVal(SubSeq(s, 7, 8)) ELSE 0
               us == IF n = 12 THEN DecVal(SubSeq(s, 10, 12)) * 1000
                     ELSE IF n = 15 THEN DecVal(SubSeq(s, 10, 15)) ELSE 0
           IN  IF h < 24 /\ mi < 60 /\ se < 60
               THEN [ok |-> TRUE, sec |-> h * 3600 + mi * 60 + se, us |-> us]
               ELSE ParseError
      ELSE ParseError

\* position of the first '+' or '-' of s, 0 when there is none
SignPos(s) ==
  LET at == {i \in 1..Len(s) : s[i] \in {Ch.plus, Ch.minus}}
  IN  IF at = {} THEN 0 ELSE CHOOSE i \in at : \A j \in at : i <= j

\* "YYYY-MM-DD[*HH[:MM[:SS[.fff[fff]]]][+HH:MM]]": the result carries the
\* ordinal day, the second of the day, the microsecond, and the UTC offset in
\* seconds when there is one (aware)
fromisoformat(s) ==
  IF Len(s) < 10 THEN ParseError
  ELSE
    LET date == ParseDate(SubSeq(s, 1, 10))
    IN  IF ~date.ok THEN ParseError
        ELSE IF Len(s) = 10
        THEN [ok |-> TRUE, ord |-> date.ord, sec |-> 0, us |-> 0, aware |-> FALSE, off |-> 0]
        ELSE IF Len(s) = 11 THEN ParseError
        ELSE
          LET rest == SubSeq(s, 12, Len(s))
              tz   == SignPos(rest)
              time == ParseTime(IF tz = 0 THEN rest ELSE SubSeq(rest, 1, tz - 1))
              zone == IF tz = 0 THEN [ok |-> TRUE, sec |-> 0, us |-> 0]
                      ELSE IF Len(rest) - tz = 5
                      THEN ParseTime(SubSeq(rest, tz + 1, Len(rest)))
                      ELSE ParseError
          IN  IF time.ok /\ zone.ok
              THEN [ok |-> TRUE, ord |-> date.ord, sec |-> time.sec, us |-> time.us,
                    aware |-> tz # 0,
                    off |-> IF tz # 0 /\ rest[tz] = Ch.minus THEN 0 - zone.sec ELSE zone.sec]
              ELSE ParseError

\* datetime.fromisoformat(x.replace('Z', '+00:00')) raises no ValueError
ParsesAsDate(x) == fromisoformat(ReplaceZ(x)).ok

\* the instant a valid date string denotes, as <<day, second, microsecond>> in
\* UTC (a string without an offset is read as UTC, as utcnow() + "Z" is)
Instant(x) ==
  LET p == fromisoformat(ReplaceZ(x))
      t == p.sec - p.off
  IN  IF t < 0 THEN <<p.ord - 1, t + 86400, p.us>>
      ELSE IF t >= 86400 THEN <<p.ord + 1, t - 86400, p.us>>
      ELSE <<p.ord, t, p.us>>

\* chronological order of two valid date strings
ChronoLeq(x, y) ==
  LET a == Instant(x)
      b == Instant(y)
  IN  \/ a[1] < b[1]
      \/ a[1] = b[1] /\ a[2] < b[2]
      \/ a[1] = b[1] /\ a[2] = b[2] /\ a[3] <= b[3]

(***************************************************************************)
(* bson.ObjectId and its 24-digit hexadecimal string form.                 *)
(***************************************************************************)
HexDigit(d) == IF d < 10 THEN Ch.zero + d ELSE Ch.a + (d - 10)

IsHex(c) == IsDigit(c) \/ (c >= Ch.a /\ c <= Ch.f) \/ (c >= Ch.A /\ c <= Ch.F)

HexDigitVal(c) ==
  IF IsDigit(c) THEN c - Ch.zero
  ELSE IF c >= Ch.a THEN c - Ch.a + 10 ELSE c - Ch.A + 10

\* str(ObjectId): 24 hexadecimal digits (the ids of the model stay below 256)
HexOf(n) ==
  [i \in 1..24 |-> IF i = 24 THEN HexDigit(n % 16)
                   ELSE IF i = 23 THEN HexDigit((n \div 16) % 16) ELSE Ch.zero]

RECURSIVE HexVal(_)
HexVal(s) == IF s = <<>> THEN 0 ELSE HexVal(SubSeq(s, 1, Len(s) - 1)) * 16 + HexDigitVal(s[Len(s)])

\* ObjectId(announcement_id): raises unless the string is 24 hexadecimal digits
ParseObjectId(s) ==
  IF Len(s) = 24 /\ \A i \in 1..24 : IsHex(s[i])
  THEN [ok |-> TRUE, oid |-> HexVal(s)]
  ELSE [ok |-> FALSE]

(***************************************************************************)
(* The two collections.                                                    *)
(***************************************************************************)
\* teachers_collection: the user directory, keyed by username
teachers ==
  [alice |-> [username |-> "alice", display_name |-> "Ms. Alice", role |-> "teacher"],
   bob   |-> [username |-> "bob", display_name |-> "Principal Bob", role |-> "admin"]]

\* document.get("start_date")
GetStartDate(doc) == IF "start_date" \in DOMAIN doc THEN doc["start_date"] ELSE None

\* a bug: "start_date" set to null where it should be removed
UnsetStartDateToNull(st, obj_id) ==
  IF obj_id \in DOMAIN st
  THEN [st EXCEPT ![obj_id] =
          [k \in DOMAIN @ \cup {"start_date"} |-> IF k = "start_date" THEN None ELSE @[k]]]
  ELSE st

\* update_one(..., {"$unset": {"start_date": ""}}): no effect when no document matches
UnsetStartDate(st, obj_id) ==
  IF obj_id \in DOMAIN st
  THEN [st EXCEPT ![obj_id] = [k \in DOMAIN @ \ {"start_date"} |-> @[k]]]
  ELSE st

\* a bug: the $set issued without its {"_id": obj_id} filter, on every document
SetFieldsEverywhere(st, obj_id, update_data) ==
  IF obj_id \in DOMAIN st
  THEN [j \in DOMAIN st |->
          [k \in DOMAIN st[j] \cup DOMAIN update_data |->
             IF k \in DOMAIN update_data THEN update_data[k] ELSE st[j][k]]]
  ELSE st

\* update_one(..., {"$set": update_data}): no upsert, no effect when no document matches
SetFields(st, obj_id, update_data) ==
  IF obj_id \in DOMAIN st
  THEN [st EXCEPT ![obj_id] =
          [k \in DOMAIN @ \cup DOMAIN update_data |->
             IF k \in DOMAIN update_data THEN update_data[k] ELSE @[k]]]
  ELSE st

\* insert_one(announcement_data) under a fresh ObjectId
InsertOne(st, obj_id, announcement_data) ==
  [k \in DOMAIN st \cup {obj_id} |-> IF k = obj_id THEN announcement_data ELSE st[k]]

\* delete_one({"_id": obj_id})
DeleteOne(st, obj_id) == [k \in DOMAIN st \ {obj_id} |-> st[k]]

\* a bug: deleted_count not looked at
DeletedCountIgnored(st, obj_id) == 1

DeletedCount(st, obj_id) == IF obj_id \in DOMAIN st THEN 1 ELSE 0

(***************************************************************************)
(* Requests: the inputs the model draws.                                   *)
(***************************************************************************)
\* no identity, an identity the directory lacks, and the two teachers
Usernames == {"", "mallory", "alice", "bob"}

\* "  ", " hi ", "yo"
Messages == {<<Ch.sp, Ch.sp>>, <<Ch.sp, 104, 105, Ch.sp>>, <<121, 111>>}

\* "not-a-date"
NotADate == <<110, 111, 116>> \o <<Ch.minus, Ch.a, Ch.minus>> \o <<100, Ch.a, 116, 101>>

\* "2025-01-01T00:00:00Z", the instant the clock starts at
DateZ == isoformat(0) \o <<Ch.Z>>

\* "2025-01-01"
DateOnly == Today

EndDates == {<<>>, NotADate, DateZ, DateOnly}

\* start_date defaults to None
StartDates == {None} \cup EndDates

\* the ids of the announcements there can be, and "abc"
Ids == {HexOf(n) : n \in 1..MaxIds} \cup {<<Ch.a, 98, 99>>}

(***************************************************************************)
(* The string functions above, tabulated over the inputs of the model.     *)
(***************************************************************************)
StripTable == [s \in Messages |-> StripOf(s)]
strip(s) == IF s \in DOMAIN StripTable THEN StripTable[s] ELSE StripOf(s)

DateTable == [x \in EndDates |-> ParsesAsDate(x)]
ValidDate(x) == IF x \in DOMAIN DateTable THEN DateTable[x] ELSE ParsesAsDate(x)

ObjectIdTable == [s \in Ids |-> ParseObjectId(s)]
ObjectId(s) == IF s \in DOMAIN ObjectIdTable THEN ObjectIdTable[s] ELSE ParseObjectId(s)

HexTable == [n \in 1..MaxIds |-> HexOf(n)]
ObjectIdStr(n) == IF n \in DOMAIN HexTable THEN HexTable[n] ELSE HexOf(n)

NowTable == [tick \in 0..MaxClock |-> UtcNowZ(tick)]
CurrentTime(tick) == IF tick \in DOMAIN NowTable THEN NowTable[tick] ELSE UtcNowZ(tick)

(***************************************************************************)
(* Responses.                                                              *)
(***************************************************************************)
HTTPException(status_code, detail) == [status |-> status_code, detail |-> detail]

\* the body of one list entry
Item(obj_id, doc) ==
  [id |-> ObjectIdStr(obj_id), message |-> doc["message"],
   start_date |-> GetStartDate(doc), end_date |-> doc["end_date"],
   created_by |-> doc["created_by"], created_at |-> doc["created_at"]]

\* .sort("created_at", DESCENDING): every order of the ids by descending
\* created_at; the order of documents with equal created_at is the store's
Sorted(st, ids) ==
  {s \in [1..Cardinality(ids) -> ids] :
     /\ \A i, j \in DOMAIN s : i # j => s[i] # s[j]
     /\ \A i, j \in DOMAIN s : i < j => LexLeq(st[s[j]]["created_at"], st[s[i]]["created_at"])}

Results(st, ids) == {[i \in DOMAIN s |-> Item(s[i], st[s[i]])] : s \in Sorted(st, ids)}

(***************************************************************************)
(* The handlers, as functions of the collection and the request.           *)
(***************************************************************************)
\* a bug: the directory not consulted
verify_nonempty_user(username) ==
  IF username = "" THEN HTTPException(401, "Authentication required")
  ELSE [status |-> 200,
        user |-> [username |-> username, display_name |-> username, role |-> "teacher"]]

verify_authenticated_user(username) ==
  IF username = "" THEN HTTPException(401, "Authentication required")
  ELSE IF username \notin DOMAIN teachers THEN HTTPException(401, "Invalid user")
  ELSE [status |-> 200,
        user |-> [username |-> teachers[username].username,
                  display_name |-> teachers[username].display_name,
                  role |-> teachers[username].role]]

\* the filter of get_active_announcements on one document
StartDateClause(doc, current_time) ==
  \/ "start_date" \notin DOMAIN doc
  \/ GetStartDate(doc) = None
  \/ "start_date" \in DOMAIN doc /\ doc["start_date"] # None
       /\ LexLeq(doc["start_date"], current_time)

\* a bug: $lte where $gte is meant
EndDateClauseLte(doc, current_time) ==
  "end_date" \in DOMAIN doc /\ doc["end_date"] # None /\ LexLeq(doc["end_date"], current_time)

EndDateClause(doc, current_time) ==
  "end_date" \in DOMAIN doc /\ doc["end_date"] # None /\ LexLeq(current_time, doc["end_date"])

ActiveFilter(doc, current_time) ==
  StartDateClause(doc, current_time) /\ EndDateClause(doc, current_time)

\* GET /announcements/ : the result lists the store can return
get_active_announcements(st, tick) ==
  LET current_time == CurrentTime(tick)
  IN  Results(st, {id \in DOMAIN st : ActiveFilter(st[id], current_time)})

\* GET /announcements/manage
get_all_announcements(st, username) ==
  LET auth == verify_authenticated_user(username)
  IN  IF auth.status # 200 THEN [status |-> auth.status, detail |-> auth.detail, bodies |-> {}]
      ELSE [status |-> 200, detail |-> "", bodies |-> Results(st, DOMAIN st)]

\* the checks create and update share (lines 95-107 and 147-159)
ValidateFields(message, end_date, start_date) ==
  IF strip(message) = <<>> THEN HTTPException(400, "Message cannot be empty")
  ELSE IF ~Truthy(end_date) THEN HTTPException(400, "End date is required")
  ELSE IF ~ValidDate(end_date) \/ (Truthy(start_date) /\ ~ValidDate(start_date))
       THEN HTTPException(400, "Invalid date format")
  ELSE [status |-> 200, detail |-> ""]

\* a bug: the message stored as submitted
AnnouncementDataUnstripped(message, end_date, username, start_date, tick) ==
  LET base == [message |-> message, end_date |-> end_date,
               created_by |-> username, created_at |-> CurrentTime(tick)]
  IN  IF Truthy(start_date)
      THEN [k \in DOMAIN base \cup {"start_date"} |->
              IF k = "start_date" THEN start_date ELSE base[k]]
      ELSE base

AnnouncementData(message, end_date, username, start_date, tick) ==
  LET base == [message |-> strip(message), end_date |-> end_date,
               created_by |-> username, created_at |-> CurrentTime(tick)]
  IN  IF Truthy(start_date)
      THEN [k \in DOMAIN base \cup {"start_date"} |->
              IF k = "start_date" THEN start_date ELSE base[k]]
      ELSE base

\* POST /announcements/ ; fresh is the ObjectId the driver generates
create_announcement(st, fresh, tick, message, end_date, username, start_date) ==
  LET auth  == verify_authenticated_user(username)
      valid == ValidateFields(message, end_date, start_date)
      fail(e) == [status |-> e.status, detail |-> e.detail, id |-> <<>>, store |-> st]
  IN  IF auth.status # 200 THEN fail(auth)
      ELSE IF valid.status # 200 THEN fail(valid)
      ELSE [status |-> 200, detail |-> "Announcement created successfully",
            id |-> ObjectIdStr(fresh),
            store |-> InsertOne(st, fresh,
                        AnnouncementData(message, end_date, username, start_date, tick))]

\* PUT /announcements/{id}, lines 136-159: authorization, the id, the lookup
\* and the validation; obj_id is kept on success
UpdateChecks(st, announcement_id, message, end_date, username, start_date) ==
  LET auth  == verify_authenticated_user(username)
      parse == ObjectId(announcement_id)
      valid == ValidateFields(message, end_date, start_date)
  IN  IF auth.status # 200 THEN auth
      ELSE IF ~parse.ok THEN HTTPException(400, "Invalid announcement ID")
      ELSE IF parse.oid \notin DOMAIN st THEN HTTPException(404, "Announcement not found")
      ELSE IF valid.status # 200 THEN valid
      ELSE [status |-> 200, detail |-> "", obj_id |-> parse.oid]

\* lines 161-167
UpdateData(message, end_date, start_date) ==
  IF Truthy(start_date)
  THEN [message |-> strip(message), end_date |-> end_date, start_date |-> start_date]
  ELSE [message |-> strip(message), end_date |-> end_date]

\* lines 166-173: the $unset is issued only when no start_date was given
UpdateUnsets(start_date) == ~Truthy(start_date)

\* a bug: the $unset issued before the fields are validated
update_announcement_unset_first(st, announcement_id, message, end_date, username, start_date) ==
  LET auth  == verify_authenticated_user(username)
      parse == ObjectId(announcement_id)
      valid == ValidateFields(message, end_date, start_date)
      fail(e, s) == [status |-> e.status, detail |-> e.detail, store |-> s]
  IN  IF auth.status # 200 THEN fail(auth, st)
      ELSE IF ~parse.ok THEN fail(HTTPException(400, "Invalid announcement ID"), st)
      ELSE IF parse.oid \notin DOMAIN st
           THEN fail(HTTPException(404, "Announcement not found"), st)
      ELSE LET st1 == IF UpdateUnsets(start_date) THEN UnsetStartDate(st, parse.oid) ELSE st
           IN  IF valid.status # 200 THEN fail(valid, st1)
               ELSE [status |-> 200, detail |-> "Announcement updated successfully",
                     store |-> SetFields(st1, parse.oid,
                                         UpdateData(message, end_date, start_date))]

\* PUT /announcements/{id} run without interruption
update_announcement(st, announcement_id, message, end_date, username, start_date) ==
  LET chk == UpdateChecks(st, announcement_id, message, end_date, username, start_date)
  IN  IF chk.status # 200 THEN [status |-> chk.status, detail |-> chk.detail, store |-> st]
      ELSE LET st1 == IF UpdateUnsets(start_date) THEN UnsetStartDate(st, chk.obj_id) ELSE st
           IN  [status |-> 200, detail |-> "Announcement updated successfully",
                store |-> SetFields(st1, chk.obj_id, UpdateData(message, end_date, start_date))]

\* DELETE /announcements/{id}
delete_announcement(st, announcement_id, username) ==
  LET auth  == verify_authenticated_user(username)
      parse == ObjectId(announcement_id)
      fail(e) == [status |-> e.status, detail |-> e.detail, store |-> st]
  IN  IF auth.status # 200 THEN fail(auth)
      ELSE IF ~parse.ok THEN fail(HTTPException(400, "Invalid announcement ID"))
      ELSE IF DeletedCount(st, parse.oid) = 0
           THEN fail(HTTPException(404, "Announcement not found"))
      ELSE [status |-> 200, detail |-> "Announcement deleted successfully",
            store |-> DeleteOne(st, parse.oid)]

(***************************************************************************)
(* The state machine.                                                      *)
(***************************************************************************)
Procs == 1..MaxProcs

Idle == [pc |-> "idle"]

Init ==
  /\ store = <<>>
  /\ nextId = 1
  /\ clock = 0
  /\ upd = [p \in Procs |-> Idle]

\* time passes
Tick ==
  /\ clock < MaxClock
  /\ clock' = clock + 1
  /\ UNCHANGED <<store, nextId, upd>>

\* a read: the response is one of get_active_announcements(store, clock) and
\* nothing is written
ListActive ==
  /\ get_active_announcements(store, clock) # {}
  /\ UNCHANGED vars

\* a read: 401, or one of the lists of get_all_announcements(store, username)
ListAll(username) ==
  /\ get_all_announcements(store, username).status \in {200, 401}
  /\ UNCHANGED vars

\* the response is dropped: a request that fails leaves every variable as it is
Create(message, end_date, username, start_date) ==
  /\ nextId <= MaxIds
  /\ LET r == create_announcement(store, nextId, clock, message, end_date, username, start_date)
     IN  /\ store' = r.store
         /\ nextId' = IF r.status = 200 THEN nextId + 1 ELSE nextId
  /\ UNCHANGED <<clock, upd>>

Update(announcement_id, message, end_date, username, start_date) ==
  /\ store' = update_announcement(store, announcement_id, message, end_date,
                                  username, start_date).store
  /\ UNCHANGED <<nextId, clock, upd>>

Delete(announcement_id, username) ==
  /\ store' = delete_announcement(store, announcement_id, username).store
  /\ UNCHANGED <<nextId, clock, upd>>

Next ==
  \/ Tick
  \/ ListActive
  \/ \E u \in Usernames : ListAll(u)
  \/ \E m \in Messages, e \in EndDates, u \in Usernames, s \in StartDates : Create(m, e, u, s)
  \/ \E id \in Ids, m \in Messages, e \in EndDates, u \in Usernames, s \in StartDates :
       Update(id, m, e, u, s)
  \/ \E id \in Ids, u \in Usernames : Delete(id, u)

Spec == Init /\ [][Next]_vars

(***************************************************************************)
(* Concurrent requests: an update is three store calls (find_one, the      *)
(* $unset when no start_date was given, the $set), and other requests run  *)
(* between them.  upd[p] is the position of the update request p and the   *)
(* locals it still needs.                                                  *)
(***************************************************************************)
\* lines 136-167: up to the first write
UpdateBegin(p, announcement_id, message, end_date, username, start_date) ==
  /\ upd[p].pc = "idle"
  /\ LET chk == UpdateChecks(store, announcement_id, message, end_date, username, start_date)
     IN  upd' = IF chk.status # 200 THEN upd
                ELSE [upd EXCEPT ![p] =
                        [pc |-> IF UpdateUnsets(start_date) THEN "unset" ELSE "set",
                         obj_id |-> chk.obj_id,
                         update_data |-> UpdateData(message, end_date, start_date)]]
  /\ UNCHANGED <<store, nextId, clock>>

\* lines 170-173
UpdateUnset(p) ==
  /\ upd[p].pc = "unset"
  /\ store' = UnsetStartDate(store, upd[p].obj_id)
  /\ upd' = [upd EXCEPT ![p].pc = "set"]
  /\ UNCHANGED <<nextId, clock>>

\* lines 175-180: the $set, then "Announcement updated successfully"
UpdateSet(p) ==
  /\ upd[p].pc = "set"
  /\ store' = SetFields(store, upd[p].obj_id, upd[p].update_data)
  /\ upd' = [upd EXCEPT ![p] = Idle]
  /\ UNCHANGED <<nextId, clock>>

ConcNext ==
  \/ Tick
  \/ ListActive
  \/ \E u \in Usernames : ListAll(u)
  \/ \E m \in Messages, e \in EndDates, u \in Usernames, s \in StartDates : Create(m, e, u, s)
  \/ \E id \in Ids, u \in Usernames : Delete(id, u)
  \/ \E p \in Procs, id \in Ids, m \in Messages, e \in EndDates, u \in Usernames,
        s \in StartDates : UpdateBegin(p, id, m, e, u, s)
  \/ \E p \in Procs : UpdateUnset(p)
  \/ \E p \in Procs : UpdateSet(p)

ConcSpec == Init /\ [][ConcNext]_vars

(***************************************************************************)
(* Properties.                                                             *)
(***************************************************************************)
Known == DOMAIN teachers

\* the "active" predicate of the data model, on a stored document
ActiveAt(doc, T) ==
  /\ \/ "start_date" \notin DOMAIN doc
     \/ doc["start_date"] = None
     \/ LexLeq(doc["start_date"], T)
  /\ LexLeq(T, doc["end_date"])

C2_UpdateStartDate ==
  \A id \in Ids, m \in Messages, e \in EndDates, u \in Usernames, s \in StartDates :
    LET r == update_announcement(store, id, m, e, u, s)
        k == ObjectId(id).oid
    IN  r.status = 200 =>
          /\ k \in DOMAIN r.store
          /\ IF Truthy(s)
             THEN "start_date" \in DOMAIN r.store[k] /\ r.store[k]["start_date"] = s
             ELSE "start_date" \notin DOMAIN r.store[k]

\* a record that has a start_date and an update without one that succeeds on it
C2_Witness ==
  \E id \in Ids, m \in Messages, e \in EndDates, u \in Usernames :
    /\ ObjectId(id).ok
    /\ ObjectId(id).oid \in DOMAIN store
    /\ "start_date" \in DOMAIN store[ObjectId(id).oid]
    /\ update_announcement(store, id, m, e, u, None).status = 200

\* C3: a create or update that fails (401, 400 or 404) leaves the collection
\* exactly as it was.
C3_FailureChangesNothing ==
  /\ \A m \in Messages, e \in EndDates, u \in Usernames, s \in StartDates :
       LET r == create_announcement(store, nextId, clock, m, e, u, s)
       IN  r.status # 200 => r.status \in {400, 401} /\ r.store = store
  /\ \A id \in Ids, m \in Messages, e \in EndDates, u \in Usernames, s \in StartDates :
       LET r == update_announcement(store, id, m, e, u, s)
       IN  r.status # 200 => r.status \in {400, 401, 404} /\ r.store = store

\* a record with a start_date, and updates of it that fail on the message, on
\* each date and on the id
C3_Witness ==
  \E id \in Ids, u \in Known :
    /\ ObjectId(id).ok
    /\ ObjectId(id).oid \in DOMAIN store
    /\ "start_date" \in DOMAIN store[ObjectId(id).oid]
    /\ \E m \in Messages : update_announcement(store, id, m, DateZ, u, None).detail
                             = "Message cannot be empty"
    /\ \E m \in Messages, e \in EndDates :
         update_announcement(store, id, m, e, u, None).detail = "Invalid date format"
    /\ \E m \in Messages, s \in StartDates :
         update_announcement(store, id, m, DateZ, u, s).detail = "Invalid date format"
    /\ \E m \in Messages :
         update_announcement(store, id, m, <<>>, u, None).detail = "End date is required"
    /\ \E bad \in Ids : update_announcement(store, bad, <<121, 111>>, DateZ, u, None).status = 400

\* the ids that were assigned and whose record is gone: only a delete removes
Deleted == {n \in 1..(nextId - 1) : n \notin DOMAIN store}

ListsHide(st, tick, id) ==
  /\ \A body \in get_active_announcements(st, tick) : \A i \in DOMAIN body : body[i].id # id
  /\ \A u \in Usernames :
       \A body \in get_all_announcements(st, u).bodies : \A i \in DOMAIN body : body[i].id # id

C4_AfterDelete ==
  /\ \A id \in Ids, u \in Usernames :
       LET r == delete_announcement(store, id, u)
       IN  r.status = 200 =>
             /\ u \in Known
             /\ ObjectId(id).oid \notin DOMAIN r.store
             /\ ListsHide(r.store, clock, id)
             /\ \A v \in Known : delete_announcement(r.store, id, v).status = 404
  /\ \A n \in Deleted :
       /\ ListsHide(store, clock, ObjectIdStr(n))
       /\ \A v \in Known : delete_announcement(store, ObjectIdStr(n), v).status = 404

\* C4: after a successful delete the record is in the collection no more, in
\* neither list, in no later state, and every further delete of its id by an
\* authenticated requester fails with 404.
C4_DeleteIsFinal ==
  /\ []C4_AfterDelete
  /\ [][\A n \in Deleted : n \notin DOMAIN store']_vars

\* an announcement was deleted and another one is still stored
C4_Witness == Deleted # {} /\ DOMAIN store # {}

\* C5: list_all, create, update and delete fail with 401 for an identity that
\* is empty or no key of the directory, whatever the other arguments, and
\* change nothing; for a key of the directory none of them fails with 401,
\* whatever the role. list_active takes no identity and always answers.
C5_Authorization ==
  /\ get_active_announcements(store, clock) # {}
  /\ \A u \in Usernames :
       LET denied(status) == IF u \in Known THEN status # 401 ELSE status = 401
       IN  /\ denied(get_all_announcements(store, u).status)
           /\ u \notin Known => get_all_announcements(store, u).bodies = {}
           /\ \A m \in Messages, e \in EndDates, s \in StartDates :
                LET r == create_announcement(store, nextId, clock, m, e, u, s)
                IN  denied(r.status) /\ (u \notin Known => r.store = store)
           /\ \A id \in Ids, m \in Messages, e \in EndDates, s \in StartDates :
                LET r == update_announcement(store, id, m, e, u, s)
                IN  denied(r.status) /\ (u \notin Known => r.store = store)
           /\ \A id \in Ids :
                LET r == delete_announcement(store, id, u)
                IN  denied(r.status) /\ (u \notin Known => r.store = store)

\* a stored record that one request deletes for both teachers, whose roles
\* differ, and for neither of the other identities
C5_Witness ==
  \E id \in Ids :
    /\ \A u \in Known : delete_announcement(store, id, u).status = 200
    /\ \A u \in Usernames \ Known : delete_announcement(store, id, u).status = 401
    /\ \E u, v \in Known : teachers[u].role # teachers[v].role

\* C6: every stored announcement has an end_date that is present and not
\* empty, and a message that is not empty and is its own trimmed form.
C6_StoredFieldsValid ==
  \A id \in DOMAIN store :
    /\ "end_date" \in DOMAIN store[id]
    /\ Truthy(store[id]["end_date"])
    /\ "message" \in DOMAIN store[id]
    /\ store[id]["message"] # <<>>
    /\ store[id]["message"] = StripOf(store[id]["message"])

\* a stored message that was submitted with spaces around it
C6_Witness ==
  \E id \in DOMAIN store, m \in Messages :
    m # StripOf(m) /\ store[id]["message"] = StripOf(m)

\* C8: an update, whoever sends it and whether it succeeds or not, keeps the
\* ids of the collection, changes no record but the one it names, and in that
\* one changes nothing but message, end_date and start_date.
C8_UpdateFrame ==
  \A id \in Ids, m \in Messages, e \in EndDates, u \in Usernames, s \in StartDates :
    LET r == update_announcement(store, id, m, e, u, s)
    IN  /\ DOMAIN r.store = DOMAIN store
        /\ \A k \in DOMAIN store :
             /\ ObjectIdStr(k) # id => r.store[k] = store[k]
             /\ \A f \in DOMAIN store[k] \ {"message", "end_date", "start_date"} :
                  f \in DOMAIN r.store[k] /\ r.store[k][f] = store[k][f]
             /\ DOMAIN r.store[k] \subseteq DOMAIN store[k] \cup {"start_date"}

\* two records of different creators at different times, and an update of
\* one of them by the creator of the other that changes it
C8_Witness ==
  \E j, k \in DOMAIN store :
    /\ store[j]["created_by"] # store[k]["created_by"]
    /\ store[j]["created_at"] # store[k]["created_at"]
    /\ store[k]["created_at"] # CurrentTime(clock)
    /\ \E m \in Messages, e \in EndDates, s \in StartDates :
         LET r == update_announcement(store, ObjectIdStr(k), m, e, store[j]["created_by"], s)
         IN  r.status = 200 /\ r.store[k] # store[k]

\* the start_date and end_date strings of the stored records
StoredDates ==
  {store[id]["end_date"] : id \in DOMAIN store}
    \cup {store[id]["start_date"] : id \in {k \in DOMAIN store : "start_date" \in DOMAIN store[k]}}

\* C9: every stored start_date and end_date, and the current-time string of
\* list_active, ends in 'Z' and has one and the same width, and comparing a
\* stored date with the current-time string as strings gives the order of
\* the two instants.
C9_StringOrderIsTimeOrder ==
  LET T == CurrentTime(clock)
  IN  /\ T[Len(T)] = Ch.Z
      /\ \A x \in StoredDates :
           /\ x[Len(x)] = Ch.Z
           /\ Len(x) = Len(T)
           /\ LexLeq(x, T) <=> ChronoLeq(x, T)
           /\ LexLeq(T, x) <=> ChronoLeq(T, x)

\* the same for dates that do end in 'Z' and carry no offset: the comparison
\* of the strings gives the order of the instants
C9_ZDatesOrder ==
  LET T == CurrentTime(clock)
  IN  \A x \in StoredDates :
        x[Len(x)] = Ch.Z =>
          /\ LexLeq(x, T) <=> ChronoLeq(x, T)
          /\ LexLeq(T, x) <=> ChronoLeq(T, x)

\* C7: an update is one atomic change of its record: the first write of an
\* update leaves the record as it was or as the whole update makes it, so no
\* request finds it without its start_date but with the old message and
\* end_date.
C7_UpdateAtomic ==
  [][\A p \in Procs :
       UpdateUnset(p) =>
         \/ store' = store
         \/ store' = SetFields(UnsetStartDate(store, upd[p].obj_id), upd[p].obj_id,
                               upd[p].update_data)]_vars

\* C10: a deleted record never exists again, and an update applies its
\* writes and reports success only while a record with its id exists.
C10_UpdateDeleteRace ==
  [][/\ \A n \in Deleted : n \notin DOMAIN store'
     /\ \A p \in Procs : UpdateSet(p) => upd[p].obj_id \in DOMAIN store]_vars

\* the part of C10 that the writes of an update do keep: no id comes back
C10_NoResurrection == [][\A n \in Deleted : n \notin DOMAIN store']_vars

====
